---- MODULE Spec2Model ----
(***************************************************************************)
(* A model of fichub_api (src/fichub_api/__init__.py): the Client with its *)
(* admission semaphore and HTTP session, and the payload reshaping         *)
(* pipeline shape_data -> msgspec.convert that get_story_metadata and      *)
(* get_story_downloads run on every decoded response.                      *)
(*                                                                         *)
(* JSON values are tagged records [k |-> kind, v |-> value].  A Python str *)
(* is a sequence of tokens: the substrings the code searches for           *)
(* ("fanfiction.net", " + ", ",", "[", ...) are tokens of their own, so    *)
(* that `in`, split, replace and removesuffix are computed on the tokens.  *)
(***************************************************************************)
EXTENDS Integers, Sequences, FiniteSets, TLC

VARIABLES sema_limit, semaphore, sems, session, config, setCalls,
          pc, call, held, issued, body, decoded, result

vars == <<sema_limit, semaphore, sems, session, config, setCalls,
          pc, call, held, issued, body, decoded, result>>

(***************************************************************************)
(* Bounds of the model.                                                    *)
(***************************************************************************)
NumTasks == 2
MaxSetCalls == 1

Tasks == 1..NumTasks

(***************************************************************************)
(* JSON values.                                                            *)
(***************************************************************************)
JNull == [k |-> "null", v |-> 0]
JStr(s) == [k |-> "str", v |-> s]
JInt(n) == [k |-> "int", v |-> n]
JBool(b) == [k |-> "bool", v |-> b]
JList(s) == [k |-> "list", v |-> s]
JDict(f) == [k |-> "dict", v |-> f]
EmptyMap == [x \in {} |-> JNull]

Has(d, key) == key \in DOMAIN d
Get(d, key, default) == IF key \in DOMAIN d THEN d[key] ELSE default
Without(d, keys) == [x \in (DOMAIN d) \ keys |-> d[x]]
Update(d, e) == [x \in (DOMAIN d) \cup (DOMAIN e) |-> IF x \in DOMAIN e THEN e[x] ELSE d[x]]
With(d, key, val) == [x \in (DOMAIN d) \cup {key} |-> IF x = key THEN val ELSE d[x]]

\* Python truthiness of a JSON value (`if more_meta := ...`).
Truthy(x) ==
    CASE x.k = "null" -> FALSE
      [] x.k = "bool" -> x.v
      [] x.k = "int" -> x.v # 0
      [] x.k = "str" -> x.v # <<>>
      [] x.k = "list" -> x.v # <<>>
      [] x.k = "dict" -> DOMAIN x.v # {}
      [] OTHER -> TRUE

\* The result of a step that may raise.
Ok(x) == [ok |-> TRUE, exc |-> "", val |-> x]
Err(e) == [ok |-> FALSE, exc |-> e, val |-> JNull]

(***************************************************************************)
(* Strings as token sequences.                                             *)
(***************************************************************************)
Contains(s, tok) == \E i \in 1..Len(s) : s[i] = tok

RECURSIVE Remove(_, _)
\* s.replace(tok, "")
Remove(s, tok) ==
    IF s = <<>> THEN <<>>
    ELSE IF Head(s) = tok THEN Remove(Tail(s), tok)
    ELSE <<Head(s)>> \o Remove(Tail(s), tok)

\* The index of the first token of s that is in seps, 0 when there is none.
FirstIn(s, seps) ==
    IF \E i \in 1..Len(s) : s[i] \in seps
    THEN CHOOSE i \in 1..Len(s) : s[i] \in seps /\ \A j \in 1..(i - 1) : s[j] \notin seps
    ELSE 0

RECURSIVE SplitAll(_, _)
\* s.split(sep) for every separator of seps: the segments between separators.
SplitAll(s, seps) ==
    LET i == FirstIn(s, seps)
    IN  IF i = 0 THEN <<s>>
        ELSE <<SubSeq(s, 1, i - 1)>> \o SplitAll(SubSeq(s, i + 1, Len(s)), seps)

\* s.split(sep, 1): at most one split, at the first separator.
SplitOnce(s, sep) ==
    LET i == FirstIn(s, {sep})
    IN  IF i = 0 THEN <<s>>
        ELSE <<SubSeq(s, 1, i - 1), SubSeq(s, i + 1, Len(s))>>

\* s.removesuffix(suffix), the suffix being one token.
RemoveSuffix(s, suffix) ==
    IF s # <<>> /\ s[Len(s)] = suffix THEN SubSeq(s, 1, Len(s) - 1) ELSE s

\* s.strip() is non-empty: some token is not whitespace.
Blank == {" "}
StripNonEmpty(s) == \E i \in 1..Len(s) : s[i] \notin Blank

RECURSIVE SelectSeqs(_)
\* The list comprehension `[char for char in ... if char.strip()]`.
SelectSeqs(segs) ==
    IF segs = <<>> THEN <<>>
    ELSE IF StripNonEmpty(Head(segs)) THEN <<Head(segs)>> \o SelectSeqs(Tail(segs))
    ELSE SelectSeqs(Tail(segs))

(***************************************************************************)
(* _camel_to_snake_case, on the characters of the string.                  *)
(***************************************************************************)
Upper == {"A", "B", "C", "D", "E", "F", "G", "H", "I", "J", "K", "L", "M",
          "N", "O", "P", "Q", "R", "S", "T", "U", "V", "W", "X", "Y", "Z"}
Lower == {"a", "b", "c", "d", "e", "f", "g", "h", "i", "j", "k", "l", "m",
          "n", "o", "p", "q", "r", "s", "t", "u", "v", "w", "x", "y", "z"}
ToLower(c) ==
    CASE c = "A" -> "a" [] c = "B" -> "b" [] c = "C" -> "c" [] c = "D" -> "d"
      [] c = "E" -> "e" [] c = "F" -> "f" [] c = "G" -> "g" [] c = "H" -> "h"
      [] c = "I" -> "i" [] c = "J" -> "j" [] c = "K" -> "k" [] c = "L" -> "l"
      [] c = "M" -> "m" [] c = "N" -> "n" [] c = "O" -> "o" [] c = "P" -> "p"
      [] c = "Q" -> "q" [] c = "R" -> "r" [] c = "S" -> "s" [] c = "T" -> "t"
      [] c = "U" -> "u" [] c = "V" -> "v" [] c = "W" -> "w" [] c = "X" -> "x"
      [] c = "Y" -> "y" [] c = "Z" -> "z" [] OTHER -> c

\* What the generator yields for the character at index i (1-based).
SnakePiece(chars, i) ==
    LET c == chars[i]
        \* substr == substr.upper(): neither neighbour is a lower-case letter
        fused == /\ i > 1
                 /\ chars[i - 1] \notin Lower
                 /\ (i < Len(chars) => chars[i + 1] \notin Lower)
    IN  IF c \notin Upper THEN c
        ELSE (IF fused THEN "" ELSE "_") \o ToLower(c)

RECURSIVE JoinPieces(_, _)
JoinPieces(chars, i) ==
    IF i > Len(chars) THEN "" ELSE SnakePiece(chars, i) \o JoinPieces(chars, i + 1)

\* "".join(...).lstrip("_"): the only leading underscore the generator can
\* produce on letters comes from an upper-case first character.
_camel_to_snake_case(chars) ==
    IF chars = <<>> THEN ""
    ELSE IF chars[1] \in Upper
         THEN ToLower(chars[1]) \o JoinPieces(chars, 2)
         ELSE JoinPieces(chars, 1)


(***************************************************************************)
(* urllib.parse.urljoin on token strings: a URL is absolute when it starts *)
(* with a scheme token; a relative one is joined to the base's origin.     *)
(***************************************************************************)
Schemes == {"https://", "http://"}
AO3_BASE == <<"https://", "www.", "archiveofourown.org">>

urljoin(base, url) ==
    IF ~Truthy(url) THEN Ok(JStr(base))
    ELSE IF url.k # "str" THEN Err("TypeError")
    ELSE IF Head(url.v) \in Schemes THEN Ok(url)
    ELSE Ok(JStr(base \o url.v))

(***************************************************************************)
(* shape_data, stage by stage.  Each stage yields Ok(value) or Err(the     *)
(* Python exception class raised there).                                   *)
(***************************************************************************)

\* Lines 266-271 with the fanfiction.net test replaced by the
\* archiveofourown.org test and the other way round.
SiteOfAo3First(src) ==
    IF Contains(src, "archiveofourown.org") THEN "ao3"
    ELSE IF Contains(src, "fanfiction.net") THEN "ffn"
    ELSE "other"

\* Identify site origin.
SiteOf(src) ==
    IF Contains(src, "fanfiction.net") THEN "ffn"
    ELSE IF Contains(src, "archiveofourown.org") THEN "ao3"
    ELSE "other"

\* data["source"] and the `in` tests on it.
Classify(data) ==
    IF data.k # "dict" THEN Err("TypeError")
    ELSE IF ~Has(data.v, "source") THEN Err("KeyError")
    ELSE IF data.v["source"].k # "str" THEN Err("TypeError")
    ELSE Ok(SiteOf(data.v["source"].v))

\* The keys of the payloads that contain "author", with the characters of
\* (key.split("author"))[1].
AuthorKeys == {"author", "authorId", "authorLocalId", "authorUrl"}
AuthorSuffix(key) ==
    CASE key = "author" -> <<>>
      [] key = "authorId" -> <<"I", "d">>
      [] key = "authorLocalId" -> <<"L", "o", "c", "a", "l", "I", "d">>
      [] key = "authorUrl" -> <<"U", "r", "l">>

AuthorField(key) ==
    IF AuthorSuffix(key) # <<>> THEN _camel_to_snake_case(AuthorSuffix(key)) ELSE "name"

\* Collect author info: the mapping shaped after the loop over data's keys.
CollectAuthor(d) ==
    LET keys == (DOMAIN d) \cap AuthorKeys
    IN  IF keys = {} THEN EmptyMap
        ELSE [author |-> JDict([f \in {AuthorField(key) : key \in keys} |->
                                  d[CHOOSE key \in keys : AuthorField(key) = f]])]

\* Fix Ao3 links for authors.
FixAuthorUrl(shaped) ==
    IF ~Has(shaped, "author") THEN Err("KeyError")
    ELSE IF ~Has(shaped["author"].v, "url") THEN Err("KeyError")
    ELSE LET j == urljoin(AO3_BASE, shaped["author"].v["url"])
         IN  IF ~j.ok THEN j
             ELSE Ok(With(shaped, "author", JDict(With(shaped["author"].v, "url", j.val))))

Digits == {"0", "1", "2", "3", "4", "5", "6", "7", "8", "9"}
DigitValue(c) ==
    CASE c = "0" -> 0 [] c = "1" -> 1 [] c = "2" -> 2 [] c = "3" -> 3 [] c = "4" -> 4
      [] c = "5" -> 5 [] c = "6" -> 6 [] c = "7" -> 7 [] c = "8" -> 8 [] c = "9" -> 9

RECURSIVE DecimalValue(_)
DecimalValue(s) ==
    IF s = <<>> THEN 0
    ELSE 10 * DecimalValue(SubSeq(s, 1, Len(s) - 1)) + DigitValue(s[Len(s)])

\* int(x.replace(",", ""))
ParseThousands(x) ==
    IF x.k # "str" THEN Err("AttributeError")
    ELSE LET d == Remove(x.v, ",")
         IN  IF d = <<>> \/ \E i \in 1..Len(d) : d[i] \notin Digits THEN Err("ValueError")
             ELSE Ok(JInt(DecimalValue(d)))

RECURSIVE StatsFrom(_, _, _)
\* {key: int(src.get(key, "0").replace(",", "")) for key in keys}
StatsFrom(src, keys, acc) ==
    IF keys = <<>> THEN Ok(JDict(acc))
    ELSE LET n == ParseThousands(Get(src, Head(keys), JStr(<<"0">>)))
         IN  IF ~n.ok THEN n ELSE StatsFrom(src, Tail(keys), With(acc, Head(keys), n.val))

FFN_STAT_KEYS == <<"favorites", "follows", "reviews">>
AO3_STAT_KEYS == <<"bookmarks", "comments", "hits", "kudos">>

\* more_meta["raw_fandom"].split(" + ", 1), then removesuffix on the last.
FFNFandoms(raw) ==
    LET parts == SplitOnce(raw, " + ")
        fixed == IF Len(parts) > 1
                 THEN [parts EXCEPT ![Len(parts)] = RemoveSuffix(parts[Len(parts)], " Crossover")]
                 ELSE parts
    IN  JList([i \in 1..Len(fixed) |-> JStr(fixed[i])])

\* more_meta["characters"].replace("[", ", ").replace("]", ", ").split(", ")
FFNCharacters(raw) ==
    LET kept == SelectSeqs(SplitAll(raw, {"[", "]", ", "}))
    IN  JList([i \in 1..Len(kept) |-> JStr(kept[i])])

\* The ffn branch: what it adds to shaped, [rating, fandoms, characters,
\* stats, is_crossover, genres], more_meta itself being left as it is.
ShapeFFN(mm) ==
    IF mm.k # "dict" THEN Err("AttributeError")
    ELSE LET m == mm.v
             st == StatsFrom(m, FFN_STAT_KEYS, EmptyMap)
         IN  IF ~st.ok THEN st
             ELSE IF ~Has(m, "rated") THEN Err("KeyError")
             ELSE IF ~Has(m, "raw_fandom") THEN Err("KeyError")
             ELSE IF m["raw_fandom"].k # "str" THEN Err("AttributeError")
             ELSE IF ~Has(m, "characters") THEN Err("KeyError")
             ELSE IF m["characters"].k # "str" THEN Err("AttributeError")
             ELSE Ok([more |-> m,
                      add |-> [rating |-> m["rated"],
                               fandoms |-> FFNFandoms(m["raw_fandom"].v),
                               characters |-> FFNCharacters(m["characters"].v),
                               stats |-> st.val,
                               is_crossover |-> Get(m, "crossover", JNull),
                               genres |-> Get(m, "genres", JStr(<<>>))]])

\* more_meta.get("rating")[0]
FirstRating(m) ==
    LET r == Get(m, "rating", JNull)
    IN  CASE r.k = "list" -> IF r.v = <<>> THEN Err("IndexError") ELSE Ok(r.v[1])
          [] r.k = "str" -> IF r.v = <<>> THEN Err("IndexError") ELSE Ok(JStr(<<r.v[1]>>))
          [] r.k = "dict" -> Err("KeyError")
          [] OTHER -> Err("TypeError")

\* len(fandoms) > 1
HasLen(x) == x.k \in {"list", "str", "dict"}
\* len() counting from zero: the index of the last element.
PyLenLastIndex(x) == IF x.k = "dict" THEN Cardinality(DOMAIN x.v) - 1 ELSE Len(x.v) - 1

PyLen(x) == IF x.k = "dict" THEN Cardinality(DOMAIN x.v) ELSE Len(x.v)

\* The ao3 branch: fandom and character are popped from more_meta, and
\* shaped["tags"] is more_meta itself (filled in by ShapeMore, after the
\* later pops).
ShapeAO3(mm) ==
    IF mm.k # "dict" THEN Err("TypeError")
    ELSE LET m == mm.v
         IN  IF ~Has(m, "stats") THEN Err("KeyError")
             ELSE IF m["stats"].k # "dict" THEN Err("AttributeError")
             ELSE LET st == StatsFrom(m["stats"].v, AO3_STAT_KEYS, EmptyMap)
                      rt == FirstRating(m)
                  IN  IF ~st.ok THEN st
                      ELSE IF ~rt.ok THEN rt
                      ELSE IF ~Has(m, "fandom") THEN Err("KeyError")
                      ELSE IF ~Has(m, "character") THEN Err("KeyError")
                      ELSE IF ~HasLen(m["fandom"]) THEN Err("TypeError")
                      ELSE Ok([more |-> Without(m, {"fandom", "character"}),
                               add |-> [rating |-> rt.val,
                                        fandoms |-> m["fandom"],
                                        characters |-> m["character"],
                                        stats |-> st.val,
                                        is_crossover |-> JBool(PyLen(m["fandom"]) > 1)]])

\* The branch for any other site.
ShapeOther(mm) ==
    IF mm.k = "list" THEN Err("TypeError")
    ELSE IF mm.k # "dict" THEN Err("AttributeError")
    ELSE Ok([more |-> mm.v,
             add |-> [rating |-> JStr(<<"No Rating">>),
                      fandoms |-> JList(<<>>),
                      characters |-> JList(<<>>),
                      stats |-> JDict(EmptyMap),
                      is_crossover |-> JBool(FALSE)]])

\* Adjust other metadata (a truthy rawExtendedMeta): the branch of the site,
\* then the pops of "stats" and "language".  Yields what is merged into
\* shaped and more_meta as the call leaves it.
ShapeBranch(type_, mm) ==
    CASE type_ = "ffn" -> ShapeFFN(mm)
      [] type_ = "ao3" -> ShapeAO3(mm)
      [] OTHER -> ShapeOther(mm)

\* Lines 314-328, b being what the branch left.
ShapeTail(type_, b) ==
    IF ~b.ok THEN b
    ELSE Ok([more |-> Without(b.val.more, {"stats", "language"}),
             add |-> Update(
                 With(b.val.add, "language", Get(b.val.more, "language", JStr(<<"English">>))),
                 IF type_ = "ao3"
                 THEN [tags |-> JDict(Without(b.val.more, {"stats", "language"}))]
                 ELSE EmptyMap)])

ShapeMore(type_, mm) == ShapeTail(type_, ShapeBranch(type_, mm))

\* data.update(shaped): on a key of both, shaped's value is kept.
Merge(data, shaped) == Update(data, shaped)

\* Lines 329-331 with the type set only when the payload has none.
ShapeMergeKeepsType(d, type_, author, more) ==
    IF ~more.ok THEN more
    ELSE Ok(JDict(Merge(
            IF Truthy(d["rawExtendedMeta"])
            THEN With(Without(d, {"source"}), "rawExtendedMeta", JDict(more.val.more))
            ELSE Without(d, {"source"}),
            Update(Update(author, more.val.add),
                   [url |-> d["source"],
                    type |-> IF Has(d, "type") THEN d["type"] ELSE JStr(<<type_>>)]))))

\* Lines 329-331: d is the payload, author the shaped author group, more
\* what the extended metadata gave.
ShapeMerge(d, type_, author, more) ==
    IF ~more.ok THEN more
    ELSE Ok(JDict(Merge(
            IF Truthy(d["rawExtendedMeta"])
            THEN With(Without(d, {"source"}), "rawExtendedMeta", JDict(more.val.more))
            ELSE Without(d, {"source"}),
            Update(Update(author, more.val.add),
                   [url |-> d["source"], type |-> JStr(<<type_>>)]))))

\* Line 284 on without the test of the value looked up: always extracts.
ShapeRestAlwaysExtracts(d, type_, fixed) ==
    IF ~fixed.ok THEN fixed
    ELSE IF ~Has(d, "rawExtendedMeta") THEN Err("KeyError")
    ELSE ShapeMerge(d, type_, fixed.val, ShapeMore(type_, d["rawExtendedMeta"]))

\* Line 284 on: the lookup of rawExtendedMeta and what follows it.
ShapeRest(d, type_, fixed) ==
    IF ~fixed.ok THEN fixed
    ELSE IF ~Has(d, "rawExtendedMeta") THEN Err("KeyError")
    ELSE ShapeMerge(d, type_, fixed.val,
                    IF Truthy(d["rawExtendedMeta"])
                    THEN ShapeMore(type_, d["rawExtendedMeta"])
                    ELSE Ok([more |-> EmptyMap, add |-> EmptyMap]))

\* Lines 273-281 on: the author group, then the rest.
ShapeFrom(d, site) ==
    IF ~site.ok THEN site
    ELSE ShapeRest(d, site.val,
                   IF site.val = "ao3" THEN FixAuthorUrl(CollectAuthor(d))
                   ELSE Ok(CollectAuthor(d)))

shape_data(data) == ShapeFrom(data.v, Classify(data))

\* The keys the ao3 branch has popped from more_meta (lines 305-306) when it
\* raises: none before line 305, "fandom" when "character" is missing,
\* both when len(fandoms) raises.
PoppedByAO3(mm) ==
    IF mm.k # "dict" THEN {}
    ELSE IF ~Has(mm.v, "stats") THEN {}
    ELSE IF mm.v["stats"].k # "dict" THEN {}
    ELSE IF ~StatsFrom(mm.v["stats"].v, AO3_STAT_KEYS, EmptyMap).ok THEN {}
    ELSE IF ~FirstRating(mm.v).ok THEN {}
    ELSE IF ~Has(mm.v, "fandom") THEN {}
    ELSE IF ~Has(mm.v, "character") THEN {"fandom"}
    ELSE {"fandom", "character"}

\* The mapping passed to shape_data as a call that raised leaves it: nothing
\* of it is touched before the ao3 branch pops from its rawExtendedMeta.
AfterRaise(d, site, fixed) ==
    IF /\ site.ok /\ site.val = "ao3" /\ fixed.ok
       /\ Has(d, "rawExtendedMeta") /\ d["rawExtendedMeta"].k = "dict"
    THEN With(d, "rawExtendedMeta",
              JDict(Without(d["rawExtendedMeta"].v, PoppedByAO3(d["rawExtendedMeta"]))))
    ELSE d

\* The object passed to shape_data after the call, shaped being what the
\* call gave: line 331 returns data itself, updated in place.
AfterShape(data, shaped) ==
    IF shaped.ok THEN shaped.val
    ELSE IF data.k # "dict" THEN data
    ELSE JDict(AfterRaise(data.v, Classify(data), FixAuthorUrl(CollectAuthor(data.v))))


(***************************************************************************)
(* msgspec.convert: the Struct types and the validation of a mapping       *)
(* against them.  A field is [name, type, req, default].                   *)
(***************************************************************************)
\* Sequence fields declared list[str], as models.py has them.
TupleAsList(s) == [k |-> "list", v |-> s]

Tuple(s) == [k |-> "tuple", v |-> s]
Datetime(s) == [k |-> "datetime", v |-> s]
Struct(T, f) == [k |-> T, v |-> f]

Fld(n, T) == [name |-> n, type |-> T, req |-> TRUE, default |-> JNull]
Opt(n, T, d) == [name |-> n, type |-> T, req |-> FALSE, default |-> d]

AO3StatsFields ==
    <<Opt("bookmarks", "int", JInt(0)), Opt("comments", "int", JInt(0)),
      Opt("hits", "int", JInt(0)), Opt("kudos", "int", JInt(0))>>
FFNStatsFields ==
    <<Opt("favorites", "int", JInt(0)), Opt("follows", "int", JInt(0)),
      Opt("reviews", "int", JInt(0))>>
NoStatsFields == <<>>
AuthorFields ==
    <<Fld("id", "int"), Fld("local_id", "str"), Fld("name", "str"), Fld("url", "str")>>
TagsFields ==
    <<Opt("category", "strs", Tuple(<<>>)), Opt("freeform", "strs", Tuple(<<>>)),
      Opt("relationship", "strs", Tuple(<<>>)), Opt("warning", "strs", Tuple(<<>>))>>

StructDefault(T, fields) ==
    Struct(T, [n \in {fields[i].name : i \in 1..Len(fields)} |->
                 fields[CHOOSE i \in 1..Len(fields) : fields[i].name = n].default])

BaseStoryFields ==
    <<Fld("author", "Author"), Fld("title", "str"), Fld("description", "str"),
      Fld("url", "str"), Fld("chapters", "int"), Fld("created", "datetime"),
      Fld("updated", "datetime"), Fld("status", "str"), Fld("words", "int"),
      Opt("language", "str", JStr(<<"English">>)),
      Opt("rating", "str", JStr(<<"No Rating">>)),
      Opt("fandoms", "strs", Tuple(<<>>)), Opt("characters", "strs", Tuple(<<>>))>>
AO3StoryFields ==
    BaseStoryFields \o
    <<Opt("is_crossover", "bool", JBool(FALSE)),
      Opt("tags", "Tags", StructDefault("Tags", TagsFields)),
      Opt("stats", "AO3Stats", StructDefault("AO3Stats", AO3StatsFields))>>
FFNStoryFields ==
    BaseStoryFields \o
    <<Opt("is_crossover", "bool", JBool(FALSE)),
      Opt("genres", "str", JStr(<<>>)),
      Opt("stats", "FFNStats", StructDefault("FFNStats", FFNStatsFields))>>
OtherStoryFields ==
    BaseStoryFields \o
    <<Opt("stats", "NoStats", StructDefault("NoStats", NoStatsFields))>>
DownloadUrlsFields ==
    <<Fld("epub", "str"), Fld("html", "str"), Fld("mobi", "str"), Fld("pdf", "str")>>

\* Every Struct class is declared frozen=True.
FrozenTypes == {"AO3Stats", "FFNStats", "NoStats", "Author", "Tags", "AO3Story", "FFNStory",
                "OtherStory", "DownloadUrls", "StoryDownload"}

StructTypes == {"Author", "Tags", "AO3Stats", "FFNStats", "NoStats",
                "AO3Story", "FFNStory", "OtherStory", "DownloadUrls"}
FieldsOf(T) ==
    CASE T = "Author" -> AuthorFields
      [] T = "Tags" -> TagsFields
      [] T = "AO3Stats" -> AO3StatsFields
      [] T = "FFNStats" -> FFNStatsFields
      [] T = "NoStats" -> NoStatsFields
      [] T = "AO3Story" -> AO3StoryFields
      [] T = "FFNStory" -> FFNStoryFields
      [] T = "OtherStory" -> OtherStoryFields
      [] T = "DownloadUrls" -> DownloadUrlsFields

\* ISO-8601 timestamps: <<date, "T", time>> over the dates and times of the model.
IsoDates == {"2023-01-05", "2024-02-29"}
IsoTimes == {"10:00:00", "23:59:59"}
IsIso(s) == Len(s) = 3 /\ s[1] \in IsoDates /\ s[2] = "T" /\ s[3] \in IsoTimes

RECURSIVE TypeOk(_, _)
\* Does msgspec accept x for a field of type T (strict mode)?
TypeOk(x, T) ==
    CASE T = "str" -> x.k = "str"
      [] T = "int" -> x.k = "int"
      [] T = "bool" -> x.k = "bool"
      [] T = "datetime" -> x.k = "str" /\ IsIso(x.v)
      [] T = "strs" -> x.k = "list" /\ \A i \in 1..Len(x.v) : x.v[i].k = "str"
      [] OTHER ->
           /\ x.k = "dict"
           /\ LET fields == FieldsOf(T)
              IN  \A i \in 1..Len(fields) :
                     IF Has(x.v, fields[i].name)
                     THEN TypeOk(x.v[fields[i].name], fields[i].type)
                     ELSE ~fields[i].req

RECURSIVE Conv(_, _)
\* The value msgspec builds from an accepted x: unknown keys are dropped,
\* absent optional fields take their defaults.
Conv(x, T) ==
    CASE T \in {"str", "int", "bool"} -> x
      [] T = "datetime" -> Datetime(x.v)
      [] T = "strs" -> Tuple(x.v)
      [] OTHER ->
           LET fields == FieldsOf(T)
           IN  Struct(T, [n \in {fields[i].name : i \in 1..Len(fields)} |->
                   LET f == fields[CHOOSE i \in 1..Len(fields) : fields[i].name = n]
                   IN  IF Has(x.v, n) THEN Conv(x.v[n], f.type) ELSE f.default])

convert(x, T) == IF TypeOk(x, T) THEN Ok(Conv(x, T)) ELSE Err("ValidationError")

\* Story = Union[AO3Story, FFNStory, OtherStory], tagged by the "type" field.
VariantOf(tag) ==
    CASE tag = <<"ao3">> -> "AO3Story"
      [] tag = <<"ffn">> -> "FFNStory"
      [] tag = <<"other">> -> "OtherStory"
      [] OTHER -> "none"

convert_story(obj) ==
    IF obj.k # "dict" \/ ~Has(obj.v, "type") THEN Err("ValidationError")
    ELSE IF obj.v["type"].k # "str" THEN Err("ValidationError")
    ELSE IF VariantOf(obj.v["type"].v) = "none" THEN Err("ValidationError")
    ELSE convert(obj, VariantOf(obj.v["type"].v))


(***************************************************************************)
(* The two entry points, as functions of the decoded response body.        *)
(***************************************************************************)
NoOutcome == [kind |-> "none", exc |-> "", val |-> JNull]
Return(x) == [kind |-> "return", exc |-> "", val |-> x]
Raise(e) == [kind |-> "raise", exc |-> e, val |-> JNull]

\* except (msgspec.MsgspecError, KeyError)
Caught == {"ValidationError", "DecodeError", "KeyError"}

\* parse_story after the decoding: shape_data, then msgspec.convert.
ConvertShaped(shaped) == IF ~shaped.ok THEN shaped ELSE convert_story(shaped.val)
parse_story(data) == ConvertShaped(shape_data(data))

\* get_story_metadata on the body of the /meta response.
MetadataOutcome(story) ==
    IF story.ok THEN Return(story.val)
    ELSE IF story.exc \in Caught THEN Raise("FicHubException")
    ELSE Raise(story.exc)
get_story_metadata(data) == MetadataOutcome(parse_story(data))

StoryDownload(urls, meta) == Struct("StoryDownload", [urls |-> urls, meta |-> meta])

\* get_story_downloads on the body of the /epub response.  The dec_hook is
\* consulted only for types msgspec does not handle itself; the fields of
\* DownloadUrls are str, so the links are taken as they come.
DownloadsOutcome(meta, urls) ==
    IF ~meta.ok /\ meta.exc \notin Caught THEN Raise(meta.exc)
    ELSE IF ~urls.ok THEN Raise("FicHubException")
    ELSE Return(StoryDownload(urls.val, IF meta.ok THEN meta.val ELSE JNull))

get_story_downloads(data) ==
    IF data.k # "dict" THEN Raise("TypeError")
    ELSE DownloadsOutcome(
            IF ~Has(data.v, "meta") THEN Err("KeyError") ELSE parse_story(data.v["meta"]),
            IF ~Has(data.v, "urls") THEN Err("KeyError")
            ELSE convert(data.v["urls"], "DownloadUrls"))


(***************************************************************************)
(* The decoded responses the service may send: a well-formed payload of    *)
(* each site (the keys of types.py), with optional keys left out, with one *)
(* key removed or replaced, or with one extra top-level key.               *)
(***************************************************************************)
SrcAO3 == <<"https://", "archiveofourown.org", "/works/1">>
SrcFFN == <<"https://", "www.", "fanfiction.net", "/s/1">>
SrcOther == <<"https://", "forums.spacebattles.com", "/threads/1">>
SrcBoth == <<"https://", "archiveofourown.org", "/works/1", "?ref=", "fanfiction.net">>
Sources == {SrcAO3, SrcFFN, SrcOther, SrcBoth}

GoodStamp == JStr(<<"2023-01-05", "T", "10:00:00">>)
LaterStamp == JStr(<<"2024-02-29", "T", "23:59:59">>)

RemFFN ==
    [characters |-> JStr(<<"[", "Harry P.", ", ", "Hermione G.", "]", " ", "Ron W.">>),
     crossover |-> JBool(FALSE),
     favorites |-> JStr(<<"1", ",", "2", "3", "4">>),
     follows |-> JStr(<<"5", "6">>),
     genres |-> JStr(<<"Adventure">>),
     id |-> JStr(<<"13766768">>),
     language |-> JStr(<<"French">>),
     rated |-> JStr(<<"Fiction T">>),
     raw_fandom |-> JStr(<<"Harry Potter">>),
     reviews |-> JStr(<<"7">>)]

RemAO3 ==
    [category |-> JList(<<JStr(<<"Gen">>)>>),
     category_hrefs |-> JList(<<JStr(<<"/tags/Gen">>)>>),
     character |-> JList(<<JStr(<<"Harry Potter">>)>>),
     fandom |-> JList(<<JStr(<<"Harry Potter">>)>>),
     freeform |-> JList(<<JStr(<<"Fluff">>)>>),
     language |-> JStr(<<"French">>),
     rating |-> JList(<<JStr(<<"Teen">>), JStr(<<"Mature">>)>>),
     relationship |-> JList(<<JStr(<<"A/B">>)>>),
     stats |-> JDict([bookmarks |-> JStr(<<"1", "2">>), comments |-> JStr(<<"3">>),
                      hits |-> JStr(<<"4", ",", "5", "6", "7">>), kudos |-> JStr(<<"8">>)]),
     warning |-> JList(<<JStr(<<"None">>)>>)]

Payload(src, rem) ==
    JDict([author |-> JStr(<<"someone">>),
           authorId |-> JInt(7),
           authorLocalId |-> JStr(<<"42">>),
           authorUrl |-> JStr(<<"/users/", "someone">>),
           chapters |-> JInt(3),
           created |-> GoodStamp,
           description |-> JStr(<<"A story.">>),
           extraMeta |-> JNull,
           id |-> JStr(<<"abc">>),
           rawExtendedMeta |-> rem,
           source |-> JStr(src),
           sourceId |-> JInt(1),
           status |-> JStr(<<"complete">>),
           title |-> JStr(<<"Title">>),
           updated |-> LaterStamp,
           words |-> JInt(1000)])

\* The well-formed payloads: the extended metadata of the site, or none.
BasePayloads ==
    {Payload(SrcAO3, JDict(RemAO3)), Payload(SrcFFN, JDict(RemFFN)),
     Payload(SrcOther, JNull), Payload(SrcOther, JDict(RemFFN)),
     Payload(SrcBoth, JDict(RemAO3)), Payload(SrcBoth, JDict(RemFFN))}

\* Optional keys left out of the extended metadata.
FFNOptional == {"favorites", "follows", "reviews", "genres", "language", "crossover"}
AO3Optional == {"language", "category", "freeform", "relationship", "warning"}
AO3OptionalStats == {"bookmarks", "comments", "hits", "kudos"}

OmitFFN(omit) == Payload(SrcFFN, JDict(Without(RemFFN, omit)))
OmitAO3(omit, omitStats) ==
    Payload(SrcAO3, JDict(With(Without(RemAO3, omit), "stats",
                               JDict(Without(RemAO3["stats"].v, omitStats)))))
OmissionPayloads ==
    {OmitFFN(o) : o \in SUBSET FFNOptional}
    \cup {OmitAO3(o, os) : o \in SUBSET AO3Optional, os \in SUBSET AO3OptionalStats}

\* One key of a mapping removed or (re)placed.
Del(key) == [op |-> "del", key |-> key, val |-> JNull]
Put(key, val) == [op |-> "put", key |-> key, val |-> val]
Edit(d, e) == IF e.op = "del" THEN Without(d, {e.key}) ELSE With(d, e.key, e.val)

TopKeys == {"author", "authorId", "authorLocalId", "authorUrl", "chapters", "created",
            "description", "extraMeta", "id", "rawExtendedMeta", "source", "sourceId",
            "status", "title", "updated", "words"}
TopEdits ==
    {Del(key) : key \in TopKeys}
    \cup {Put("source", v) : v \in {JInt(5), JNull}}
    \cup {Put("title", JInt(1)), Put("chapters", JStr(<<"3">>)), Put("words", JBool(TRUE)),
          Put("created", JStr(<<"yesterday">>)), Put("updated", JInt(0)),
          Put("author", JInt(1)), Put("authorId", JStr(<<"7">>)),
          Put("description", JNull), Put("status", JList(<<>>))}
    \cup {Put("authorUrl", v) : v \in {JInt(5), JNull, JStr(<<>>),
                                      JStr(<<"https://", "example.org", "/u/1">>)}}
    \cup {Put("rawExtendedMeta", v) : v \in {JNull, JDict(EmptyMap), JStr(<<"x">>), JInt(5),
                                            JList(<<JInt(1)>>)}}

\* Keys the payload does not normally carry, already present at the top level.
ExtraEdits ==
    {Put("type", v) : v \in {JStr(<<"ao3">>), JStr(<<"ffn">>), JStr(<<"other">>),
                             JStr(<<"bogus">>), JInt(1)}}
    \cup {Put("url", v) : v \in {JStr(SrcFFN), JStr(SrcAO3), JInt(1)}}
    \cup {Put("stats", v) : v \in {JDict([hits |-> JInt(9), favorites |-> JInt(9)]),
                                   JDict([hits |-> JStr(<<"9">>)]), JInt(1)}}
    \cup {Put("tags", v) : v \in {JDict([category |-> JList(<<JStr(<<"F/M">>)>>)]), JInt(1)}}
    \cup {Put("is_crossover", v) : v \in {JBool(TRUE), JStr(<<"yes">>)}}
    \cup {Put("language", JStr(<<"German">>)), Put("rating", JStr(<<"Explicit">>)),
          Put("fandoms", JList(<<JStr(<<"Naruto">>)>>)),
          Put("characters", JList(<<JStr(<<"Naruto U.">>)>>)),
          Put("genres", JStr(<<"Humor">>))}

RemKeys == (DOMAIN RemFFN) \cup (DOMAIN RemAO3)
BadStats == {JInt(5), JNull, JStr(<<"x">>), JStr(<<>>), JStr(<<"1", "x">>)}
RemEdits ==
    {Del(key) : key \in RemKeys}
    \cup {Put(key, v) : key \in {"favorites", "follows", "reviews"}, v \in BadStats}
    \cup {Put("rated", v) : v \in {JInt(5), JNull}}
    \cup {Put("raw_fandom", v) :
            v \in {JInt(5), JNull,
                   JStr(<<"Harry Potter", " + ", "Naruto", " Crossover">>),
                   JStr(<<"Harry Potter", " + ", "Naruto", " + ", "Bleach", " Crossover">>),
                   JStr(<<"Harry Potter", " Crossover">>)}}
    \cup {Put("characters", v) : v \in {JInt(5), JNull, JStr(<<>>), JStr(<<"[", "]", " ">>)}}
    \cup {Put("crossover", v) : v \in {JNull, JBool(TRUE), JStr(<<"yes">>)}}
    \cup {Put("genres", v) : v \in {JInt(5), JNull}}
    \cup {Put("language", v) : v \in {JInt(5), JNull}}
    \cup {Put("stats", v) : v \in {JNull, JStr(<<"x">>), JDict(EmptyMap)}}
    \cup {Put("rating", v) : v \in {JNull, JList(<<>>), JStr(<<"Teen">>), JStr(<<>>), JInt(5),
                                    JList(<<JInt(5)>>), JDict(EmptyMap)}}
    \cup {Put("fandom", v) :
            v \in {JInt(5), JNull, JList(<<>>), JStr(<<"Harry Potter">>),
                   JList(<<JStr(<<"Harry Potter">>), JStr(<<"Naruto">>)>>),
                   JList(<<JInt(5)>>)}}
    \cup {Put("character", v) : v \in {JInt(5), JNull, JList(<<JInt(5)>>)}}
    \cup {Put("category", v) : v \in {JInt(5), JNull, JList(<<JInt(5)>>)}}
StatsEdits ==
    {Put(key, v) : key \in AO3OptionalStats, v \in BadStats}

EditTop(p, e) == JDict(Edit(p.v, e))
EditRem(p, e) ==
    JDict(With(p.v, "rawExtendedMeta", JDict(Edit(p.v["rawExtendedMeta"].v, e))))
EditStats(p, e) ==
    LET rem == p.v["rawExtendedMeta"].v
    IN  JDict(With(p.v, "rawExtendedMeta",
                   JDict(With(rem, "stats", JDict(Edit(rem["stats"].v, e))))))

WithRem == {p \in BasePayloads : p.v["rawExtendedMeta"].k = "dict"}
DefectPayloads ==
    {EditTop(p, e) : p \in BasePayloads, e \in TopEdits \cup ExtraEdits}
    \cup {EditRem(p, e) : p \in WithRem, e \in RemEdits}
    \cup {EditStats(p, e) : p \in {q \in WithRem : Has(q.v["rawExtendedMeta"].v, "stats")},
                            e \in StatsEdits}

\* Bodies that are no JSON object at all.
NonObjects == {JNull, JList(<<>>), JStr(<<"error">>)}

MetaBodies == BasePayloads \cup OmissionPayloads \cup DefectPayloads \cup NonObjects

\* The urls object of an /epub response.
AbsLinks ==
    [epub |-> JStr(<<"https://", "fichub.net", "/cache/epub/x.epub">>),
     html |-> JStr(<<"https://", "fichub.net", "/cache/html/x.zip">>),
     mobi |-> JStr(<<"https://", "fichub.net", "/cache/mobi/x.mobi">>),
     pdf |-> JStr(<<"https://", "fichub.net", "/cache/pdf/x.pdf">>)]
RelLinks ==
    [epub |-> JStr(<<"/cache/epub/x.epub">>), html |-> JStr(<<"/cache/html/x.zip">>),
     mobi |-> JStr(<<"/cache/mobi/x.mobi">>), pdf |-> JStr(<<"/cache/pdf/x.pdf">>)]
LinkKeys == {"epub", "html", "mobi", "pdf"}
GoodUrls == {JDict(AbsLinks), JDict(RelLinks), JDict(With(RelLinks, "epub", AbsLinks["epub"])),
             JDict(With(AbsLinks, "extra", JStr(<<"/x">>)))}
BadUrls ==
    {JDict(Without(RelLinks, {key})) : key \in LinkKeys}
    \cup {JDict(With(RelLinks, key, v)) : key \in LinkKeys, v \in {JNull, JInt(5)}}
    \cup {JDict(EmptyMap), JNull, JStr(<<"/cache">>)}

EpubBase == [err |-> JInt(0), q |-> JStr(SrcAO3)]
NoKey == [k |-> "absent", v |-> 0]
\* The /epub body with the given meta and urls (NoKey: the key is absent).
Epub(meta, urls) ==
    LET a == IF meta.k = "absent" THEN EpubBase ELSE With(EpubBase, "meta", meta)
    IN  JDict(IF urls.k = "absent" THEN a ELSE With(a, "urls", urls))

\* Every meta with a complete, an absent and an incomplete urls object; the
\* well-formed, null and absent metas with every urls object.
EpubBodies ==
    {Epub(m, u) : m \in (MetaBodies \cup {NoKey}),
                  u \in {JDict(RelLinks), NoKey, JDict(Without(RelLinks, {"pdf"}))}}
    \cup {Epub(m, u) : m \in (BasePayloads \cup {NoKey, JNull}),
                       u \in (GoodUrls \cup BadUrls \cup {NoKey})}
    \cup NonObjects


(***************************************************************************)
(* The Client.                                                             *)
(*   sems[i]       the i-th asyncio.Semaphore made: its initial value, its *)
(*                 counter and its queue of waiting tasks                  *)
(*   semaphore     the index of self._semaphore                            *)
(*   config        the last attempt to set the limit (by __init__ or by    *)
(*                 the setter): the value given, the exception raised,     *)
(*                 the limit and the semaphore before it                   *)
(*   body[t]       the decoded body of the response t received, if any     *)
(*   result[t]     what t's call returned or raised                        *)
(*   pc[t]         where task t is in its call                             *)
(*   held[t]       the semaphore t waits on or holds a permit of           *)
(***************************************************************************)
NoArg == [given |-> FALSE, v |-> 0]
Arg(n) == [given |-> TRUE, v |-> n]
LimitValues == 0..4
CtorArgs == {NoArg, Arg(0 - 1)} \cup {Arg(n) : n \in LimitValues}

\* __init__ as api.py has it: self._sema_limit = sema_limit.
InitSemaLimitRaw(arg) == IF arg.given THEN arg.v ELSE 2

\* sema_limit if (sema_limit and 1 <= sema_limit <= 3) else 2
InitSemaLimit(arg) ==
    IF arg.given /\ arg.v # 0 /\ 1 <= arg.v /\ arg.v <= 3 THEN arg.v ELSE 2

\* The setter's test with its lower end off by one.
ValidLimitFromZero(value) == 0 <= value /\ value <= 3

\* if 1 <= value <= 3
ValidLimit(value) == 1 <= value /\ value <= 3

Semaphore(value) == [cap |-> value, value |-> value, waiters |-> <<>>]

\* Semaphore.locked(): the counter is zero or a waiter is queued (a waiter
\* already woken stays queued until it runs again).
Locked(s) == s.value = 0 \/ s.waiters # <<>>

\* The queue without task t.
Unqueued(w, t) == SelectSeq(w, LAMBDA u : u # t)

\* _wake_up_next() waking nobody.
WakeUpNobody(s, p) == [sem |-> s, pc |-> p]

\* Semaphore._wake_up_next(): the first queued waiter not yet woken takes a
\* permit and is woken; p is the position of every task.
WakeUpNext(s, p) ==
    IF \E i \in 1..Len(s.waiters) : p[s.waiters[i]] = "waiting"
    THEN [sem |-> [s EXCEPT !.value = @ - 1],
          pc |-> [p EXCEPT ![s.waiters[CHOOSE i \in 1..Len(s.waiters) :
                                /\ p[s.waiters[i]] = "waiting"
                                /\ \A j \in 1..(i - 1) : p[s.waiters[j]] # "waiting"]]
                             = "admitted"]]
    ELSE [sem |-> s, pc |-> p]

\* Semaphore.release(): the counter goes up and the next waiter is woken.
Release(s, p) == WakeUpNext([s EXCEPT !.value = @ + 1], p)

\* The end of acquire() for a woken waiter: it leaves the queue and, if a
\* permit is left, wakes the next waiter.
Acquired(s, p, t) ==
    IF s.value > 0 THEN WakeUpNext([s EXCEPT !.waiters = Unqueued(@, t)], p)
    ELSE [sem |-> [s EXCEPT !.waiters = Unqueued(@, t)], pc |-> p]

Init ==
    /\ \E a \in CtorArgs :
          /\ sema_limit = InitSemaLimit(a)
          /\ config = [via |-> "init", given |-> a.given, arg |-> a.v,
                       raised |-> "", before |-> 0, sem |-> 0]
    /\ sems = <<Semaphore(sema_limit)>>
    /\ semaphore = 1
    /\ session \in {"none", "open"}
    /\ setCalls = 0
    /\ pc = [t \in Tasks |-> "idle"]
    /\ call = [t \in Tasks |-> "none"]
    /\ held = [t \in Tasks |-> 0]
    /\ issued = [t \in Tasks |-> <<>>]
    /\ body = [t \in Tasks |-> NoKey]
    /\ decoded = [t \in Tasks |-> NoKey]
    /\ result = [t \in Tasks |-> NoOutcome]

\* client.sema_limit = value
SetSemaLimit(value) ==
    /\ setCalls < MaxSetCalls
    /\ setCalls' = setCalls + 1
    /\ IF ValidLimit(value)
       THEN /\ sema_limit' = value
            /\ sems' = Append(sems, Semaphore(value))
            /\ semaphore' = Len(sems) + 1
            /\ config' = [via |-> "setter", given |-> TRUE, arg |-> value,
                          raised |-> "", before |-> sema_limit, sem |-> semaphore]
       ELSE /\ config' = [via |-> "setter", given |-> TRUE, arg |-> value,
                          raised |-> "ValueError", before |-> sema_limit, sem |-> semaphore]
            /\ UNCHANGED <<sema_limit, sems, semaphore>>
    /\ UNCHANGED <<session, pc, call, held, issued, body, decoded, result>>

\* start_session
StartedSession(s) == IF s = "none" \/ s = "closed" THEN "open" ELSE s

\* close(), also run by __aexit__.
Close ==
    /\ session = "open"
    /\ session' = "closed"
    /\ UNCHANGED <<sema_limit, semaphore, sems, config, setCalls,
                   pc, call, held, issued, body, decoded, result>>

\* A task calls get_story_metadata ("meta") or get_story_downloads ("epub")
\* and runs _get up to its first suspension: start_session, then the
\* acquire of self._semaphore, which either takes a permit at once (and
\* self.session.get is called, line 438) or queues the task.  Tasks are
\* numbered in the order of their calls.
Call(t, m) ==
    /\ pc[t] = "idle"
    /\ \A u \in Tasks : u < t => pc[u] # "idle"
    /\ call' = [call EXCEPT ![t] = m]
    /\ session' = StartedSession(session)
    /\ held' = [held EXCEPT ![t] = semaphore]
    /\ IF Locked(sems[semaphore])
       THEN /\ sems' = [sems EXCEPT ![semaphore].waiters = Append(@, t)]
            /\ pc' = [pc EXCEPT ![t] = "waiting"]
            /\ UNCHANGED issued
       ELSE /\ sems' = [sems EXCEPT ![semaphore].value = @ - 1]
            /\ pc' = [pc EXCEPT ![t] = "inflight"]
            /\ issued' = [issued EXCEPT ![t] = Append(@, StartedSession(session))]
    /\ UNCHANGED <<sema_limit, semaphore, config, setCalls, body, decoded, result>>

\* Task t leaves `async with self._semaphore` from the state (ss, p) of the
\* semaphores and tasks: release() on the semaphore it entered, and the
\* call ends with the given outcome.
LeaveFrom(ss, p, t, outcome) ==
    /\ sems' = [ss EXCEPT ![held[t]] = Release(ss[held[t]], p).sem]
    /\ pc' = [Release(ss[held[t]], p).pc EXCEPT ![t] = "done"]
    /\ held' = [held EXCEPT ![t] = 0]
    /\ result' = [result EXCEPT ![t] = outcome]

\* The same with the permit given back only when the call returns.
LeaveKeepsPermitOnError(t, outcome) ==
    IF outcome.kind = "return" THEN LeaveFrom(sems, pc, t, outcome)
    ELSE /\ pc' = [pc EXCEPT ![t] = "done"]
         /\ held' = [held EXCEPT ![t] = 0]
         /\ result' = [result EXCEPT ![t] = outcome]
         /\ UNCHANGED sems

\* __aexit__ of the semaphore, on every way out of the block.
Leave(t, outcome) == LeaveFrom(sems, pc, t, outcome)

\* A waiter woken with a permit runs again: acquire() returns and
\* self.session.get is called on the session as it is now; aiohttp refuses
\* a closed session with RuntimeError, which leaves the block at once.
Resume(t) ==
    /\ pc[t] = "admitted"
    /\ issued' = [issued EXCEPT ![t] = Append(@, session)]
    /\ IF session = "open"
       THEN /\ sems' = [sems EXCEPT ![held[t]] = Acquired(sems[held[t]], pc, t).sem]
            /\ pc' = [Acquired(sems[held[t]], pc, t).pc EXCEPT ![t] = "inflight"]
            /\ UNCHANGED <<held, result>>
       ELSE LeaveFrom([sems EXCEPT ![held[t]] = Acquired(sems[held[t]], pc, t).sem],
                      Acquired(sems[held[t]], pc, t).pc, t, Raise("RuntimeError"))
    /\ UNCHANGED <<sema_limit, semaphore, session, config, setCalls, call, body, decoded>>

\* The decoded object as the call leaves it: shape_data has worked on the
\* body of /meta, or on the "meta" of the body of /epub.
DecodedAfter(m, b) ==
    IF b.k # "dict" THEN b
    ELSE IF m = "meta" THEN AfterShape(b, shape_data(b))
    ELSE IF ~Has(b.v, "meta") THEN b
    ELSE JDict(With(b.v, "meta", AfterShape(b.v["meta"], shape_data(b.v["meta"]))))

\* The response arrives with a 2xx status and is read; the body is decoded
\* and parsed before the call returns.
Respond(t, metaBodies, epubBodies) ==
    /\ pc[t] = "inflight"
    /\ \E b \in (IF call[t] = "meta" THEN metaBodies ELSE epubBodies) :
          /\ body' = [body EXCEPT ![t] = b]
          /\ decoded' = [decoded EXCEPT ![t] = DecodedAfter(call[t], b)]
          /\ Leave(t, IF call[t] = "meta" THEN get_story_metadata(b)
                      ELSE get_story_downloads(b))
    /\ UNCHANGED <<sema_limit, semaphore, session, config, setCalls, call, issued>>

\* raise_for_status() failing with the request sent once more instead of
\* the exception being raised.
HttpErrorRetries(t) ==
    /\ pc[t] = "inflight"
    /\ issued' = [issued EXCEPT ![t] = Append(@, session)]
    /\ UNCHANGED <<sema_limit, semaphore, sems, session, config, setCalls,
                   pc, call, held, body, decoded, result>>

\* raise_for_status() raises ClientResponseError, turned into FicHubException.
HttpError(t) ==
    /\ pc[t] = "inflight"
    /\ Leave(t, Raise("FicHubException"))
    /\ UNCHANGED <<sema_limit, semaphore, session, config, setCalls, call,
                   issued, body, decoded>>

\* Any other failure of the request leaves _get as it is.
NetworkError(t) ==
    /\ pc[t] = "inflight"
    /\ Leave(t, Raise("ClientConnectionError"))
    /\ UNCHANGED <<sema_limit, semaphore, session, config, setCalls, call,
                   issued, body, decoded>>

\* The task of the call is cancelled.  Queued: its future is cancelled and
\* it leaves the queue.  Woken but not yet run: acquire() puts the permit
\* back and wakes the next waiter.  In flight: CancelledError leaves the
\* block, which releases.
Cancel(t) ==
    /\ pc[t] \in {"waiting", "admitted", "inflight"}
    /\ CASE pc[t] = "waiting" ->
              /\ sems' = [sems EXCEPT ![held[t]].waiters = Unqueued(@, t)]
              /\ pc' = [pc EXCEPT ![t] = "done"]
              /\ held' = [held EXCEPT ![t] = 0]
              /\ result' = [result EXCEPT ![t] = Raise("CancelledError")]
         [] pc[t] = "admitted" ->
              LeaveFrom([sems EXCEPT ![held[t]].waiters = Unqueued(@, t)], pc,
                        t, Raise("CancelledError"))
         [] pc[t] = "inflight" -> Leave(t, Raise("CancelledError"))
    /\ UNCHANGED <<sema_limit, semaphore, session, config, setCalls, call,
                   issued, body, decoded>>

\* The responses of the concurrent runs: a body that parses and one that
\* does not.
FewMetaBodies == {Payload(SrcFFN, JDict(RemFFN))}
FewEpubBodies == {Epub(NoKey, NoKey)}

Next ==
    \/ \E v \in LimitValues : SetSemaLimit(v)
    \/ Close
    \/ \E t \in Tasks, m \in {"meta", "epub"} : Call(t, m)
    \/ \E t \in Tasks : Resume(t)
    \/ \E t \in Tasks : Respond(t, FewMetaBodies, FewEpubBodies)
    \/ \E t \in Tasks : HttpError(t)
    \/ \E t \in Tasks : NetworkError(t)
    \/ \E t \in Tasks : Cancel(t)

Spec == Init /\ [][Next]_vars

(***************************************************************************)
(* One call on a fresh Client(), over every response of the model.         *)
(***************************************************************************)
ParseInit == Init /\ ~config.given /\ session = "none"

ParseNext ==
    \/ \E m \in {"meta", "epub"} : Call(1, m)
    \/ Respond(1, MetaBodies, EpubBodies)

ParseSpec == ParseInit /\ [][ParseNext]_vars

(***************************************************************************)
(* Concurrent calls on a Client(sema_limit=1) or Client(sema_limit=2),     *)
(* answered with well-formed payloads of every site.                       *)
(***************************************************************************)
PairMetaBodies == BasePayloads
PairEpubBodies == {Epub(p, JDict(RelLinks)) : p \in BasePayloads}

PairInit == Init /\ config.given /\ config.arg \in {1, 2} /\ session = "none"

PairNext ==
    \/ \E t \in Tasks, m \in {"meta", "epub"} : Call(t, m)
    \/ \E t \in Tasks : Resume(t)
    \/ \E t \in Tasks : Respond(t, PairMetaBodies, PairEpubBodies)

PairSpec == PairInit /\ [][PairNext]_vars

(***************************************************************************)
(* More calls than permits.  The event loop runs every woken task, and no  *)
(* request sent stays unanswered for ever: if nothing else ends it (a      *)
(* response, the cancellation of its task), it fails.  No caller withdraws *)
(* a call that still waits.                                                *)
(***************************************************************************)
Fails(t) == HttpError(t) \/ NetworkError(t)

CancelHolder(t) == pc[t] # "waiting" /\ Cancel(t)

LiveNext ==
    \/ \E v \in {1, 2} : SetSemaLimit(v)
    \/ Close
    \/ \E t \in Tasks : Call(t, "meta")
    \/ \E t \in Tasks : Resume(t)
    \/ \E t \in Tasks : Respond(t, FewMetaBodies, FewEpubBodies)
    \/ \E t \in Tasks : Fails(t)
    \/ \E t \in Tasks : CancelHolder(t)

LiveSpec ==
    /\ PairInit /\ [][LiveNext]_vars
    /\ \A t \in Tasks : WF_vars(Resume(t)) /\ WF_vars(Fails(t))


(***************************************************************************)
(* Properties.                                                             *)
(***************************************************************************)
\* Task t's request was answered with a body, which its call has parsed.
Answered(t, m) == pc[t] = "done" /\ call[t] = m /\ body[t].k # "absent"

InFlight == {t \in Tasks : pc[t] \in {"admitted", "inflight"}}

AllLinks(b) ==
    /\ b.k = "dict" /\ Has(b.v, "urls") /\ b.v["urls"].k = "dict"
    /\ \A key \in LinkKeys : Has(b.v["urls"].v, key) /\ b.v["urls"].v[key].k = "str"

MalformedMeta(b) == ~Has(b.v, "meta") \/ ~parse_story(b.v["meta"]).ok

\* C1: an /epub response with all four links and a malformed meta makes
\* get_story_downloads return a StoryDownload with the links and meta None;
\* it never raises.
C1_MalformedMetaIsSoft ==
    \A t \in Tasks :
        (Answered(t, "epub") /\ AllLinks(body[t]) /\ MalformedMeta(body[t]))
        => /\ result[t].kind = "return"
           /\ result[t].val.v["meta"] = JNull
           /\ \A key \in LinkKeys : result[t].val.v["urls"].v[key].k = "str"

MissingLink(b) ==
    \/ ~Has(b.v, "urls")
    \/ b.v["urls"].k = "dict" /\ \E key \in LinkKeys : ~Has(b.v["urls"].v, key)

\* C2: an /epub response whose urls object is missing or lacks one of the
\* four keys makes get_story_downloads raise FicHubException, whatever its
\* meta is.
C2_MissingLinkIsFicHubException ==
    \A t \in Tasks :
        (Answered(t, "epub") /\ body[t].k = "dict" /\ MissingLink(body[t]))
        => result[t] = Raise("FicHubException")

\* C3: the number of requests in flight never exceeds the current
\* sema_limit.
C3_InFlightWithinLimit == Cardinality(InFlight) <= sema_limit

OutOfRange(n) == n < 1 \/ n > 3

\* C4: every attempt to configure a limit outside 1..3, by the constructor
\* or by the setter, is rejected with an error.
C4_OutOfRangeRejected ==
    (config.given /\ OutOfRange(config.arg)) => config.raised # ""

\* C4, amended: the setter rejects a value outside 1..3 with ValueError and
\* leaves the limit and the semaphore as they were; the constructor raises
\* nothing and replaces an absent or out-of-range argument by 2.
C4_SetterRejectsCtorDefaults ==
    /\ (config.via = "setter" /\ OutOfRange(config.arg))
       => /\ config.raised = "ValueError"
          /\ sema_limit = config.before
          /\ semaphore = config.sem
    /\ (config.via = "setter" /\ ~OutOfRange(config.arg)) => config.raised = ""
    /\ config.via = "init"
       => /\ config.raised = ""
          /\ (~config.given \/ OutOfRange(config.arg)) => sema_limit = 2

C4_Witness ==
    config.via = "setter" /\ config.arg = 4 /\ config.raised = "ValueError" /\ sema_limit = 3

\* C5: sema_limit is always an integer of 1..3 and is the capacity of the
\* semaphore _get acquires; a client constructed with an absent or
\* out-of-range argument has the limit 2.
C5_LimitIsSemaphoreCapacity ==
    /\ sema_limit \in 1..3
    /\ sems[semaphore].cap = sema_limit
    /\ (config.via = "init" /\ (~config.given \/ OutOfRange(config.arg))) => sema_limit = 2
    /\ (config.via = "init" /\ config.given /\ ~OutOfRange(config.arg))
       => sema_limit = config.arg

C5_Witness ==
    /\ config.via = "setter" /\ config.raised = ""
    /\ sema_limit = 1 /\ config.before = 2
    /\ \E t \in Tasks : pc[t] = "inflight" /\ held[t] # semaphore

\* C6: get_story_metadata on a decoded /meta response either returns a
\* Story or raises FicHubException, never another exception.
C6_OnlyFicHubException ==
    \A t \in Tasks :
        (Answered(t, "meta") /\ body[t].k = "dict")
        => (result[t].kind = "return" \/ result[t] = Raise("FicHubException"))

VariantOfSite(site) ==
    CASE site = "ffn" -> "FFNStory" [] site = "ao3" -> "AO3Story" [] OTHER -> "OtherStory"

\* The Story a finished call produced, JNull when it produced none.
StoryOf(t) ==
    IF result[t].kind # "return" THEN JNull
    ELSE IF call[t] = "meta" THEN result[t].val
    ELSE result[t].val.v["meta"]

\* The metadata payload of the response.
PayloadOf(t) ==
    IF call[t] = "meta" THEN body[t]
    ELSE IF body[t].k = "dict" /\ Has(body[t].v, "meta") THEN body[t].v["meta"]
    ELSE JNull

\* C7: a successful parse produces exactly one variant, the one of the site
\* classification of the payload's source; keys such as type, url, stats,
\* tags or is_crossover at the top level of the payload do not change it.
C7_VariantFromSourceOnly ==
    \A t \in Tasks :
        (pc[t] = "done" /\ StoryOf(t) # JNull)
        => StoryOf(t).k = VariantOfSite(SiteOf(PayloadOf(t).v["source"].v))

C7_Witness ==
    \E t \in Tasks :
        /\ Answered(t, "meta") /\ result[t].kind = "return"
        /\ Has(body[t].v, "type") /\ body[t].v["type"] = JStr(<<"ao3">>)
        /\ body[t].v["source"] = JStr(SrcFFN)
        /\ result[t].val.k = "FFNStory"

BothSites(src) == Contains(src, "archiveofourown.org") /\ Contains(src, "fanfiction.net")

\* C8: a source containing both "archiveofourown.org" and "fanfiction.net"
\* is classified AO3 and yields the AO3 variant.
C8_BothIsAO3 ==
    \A t \in Tasks :
        (Answered(t, "meta") /\ result[t].kind = "return"
         /\ BothSites(body[t].v["source"].v))
        => result[t].val.k = "AO3Story"

\* C8, amended: classification is total over source strings, and a source
\* containing both substrings is classified FFN (the fanfiction.net test is
\* made first): it is reshaped by the FFN rules and yields the FFN variant.
C8_BothIsFFN ==
    \A t \in Tasks :
        (Answered(t, "meta") /\ body[t].k = "dict" /\ Has(body[t].v, "source")
         /\ body[t].v["source"].k = "str")
        => /\ Classify(body[t]).ok
           /\ Classify(body[t]).val \in {"ffn", "ao3", "other"}
           /\ BothSites(body[t].v["source"].v)
              => /\ Classify(body[t]).val = "ffn"
                 /\ result[t].kind = "return"
                    => /\ result[t].val.k = "FFNStory"
                       /\ result[t].val.v["stats"].k = "FFNStats"

C8_Witness ==
    \E t \in Tasks :
        /\ Answered(t, "meta") /\ body[t] = Payload(SrcBoth, JDict(RemFFN))
        /\ result[t].kind = "return" /\ result[t].val.k = "FFNStory"

\* The well-formed payloads with rawExtendedMeta null or empty, or absent.
NullRemPayloads ==
    {EditTop(p, Put("rawExtendedMeta", v)) : p \in BasePayloads, v \in {JNull, JDict(EmptyMap)}}
AbsentRemPayloads == {EditTop(p, Del("rawExtendedMeta")) : p \in BasePayloads}

DefaultStats(variant) ==
    CASE variant = "AO3Story" ->
           Struct("AO3Stats", [bookmarks |-> JInt(0), comments |-> JInt(0),
                               hits |-> JInt(0), kudos |-> JInt(0)])
      [] variant = "FFNStory" ->
           Struct("FFNStats", [favorites |-> JInt(0), follows |-> JInt(0), reviews |-> JInt(0)])
      [] OTHER -> Struct("NoStats", EmptyMap)

HasDefaults(story) ==
    /\ story.v["language"] = JStr(<<"English">>)
    /\ story.v["rating"] = JStr(<<"No Rating">>)
    /\ story.v["fandoms"] = Tuple(<<>>)
    /\ story.v["characters"] = Tuple(<<>>)
    /\ story.v["stats"] = DefaultStats(story.k)

\* C9: with rawExtendedMeta absent or null, reshaping succeeds and the Story
\* has the type defaults.
C9_NoExtendedMetaIsDefault ==
    \A t \in Tasks :
        (Answered(t, "meta") /\ body[t] \in NullRemPayloads \cup AbsentRemPayloads)
        => (result[t].kind = "return" /\ HasDefaults(result[t].val))

\* C9, amended: with rawExtendedMeta null (or an empty object) in an
\* otherwise well-formed payload, reshaping succeeds and the Story has the
\* type defaults; with the key rawExtendedMeta not present, shape_data
\* raises KeyError and get_story_metadata fails with FicHubException.
C9_NullExtendedMetaIsDefault ==
    \A t \in Tasks :
        /\ (Answered(t, "meta") /\ body[t] \in NullRemPayloads)
           => (result[t].kind = "return" /\ HasDefaults(result[t].val))
        /\ (Answered(t, "meta") /\ body[t] \in AbsentRemPayloads)
           => (shape_data(body[t]) = Err("KeyError") /\ result[t] = Raise("FicHubException"))

C9_Witness ==
    \E t \in Tasks :
        /\ Answered(t, "meta") /\ body[t] = Payload(SrcAO3, JNull)
        /\ result[t].kind = "return" /\ result[t].val.k = "AO3Story"
        /\ HasDefaults(result[t].val)

\* The extended metadata of an omission payload, and the default each
\* omitted key should give.
OmissionDefaults(b, story) ==
    LET rem == b.v["rawExtendedMeta"].v
    IN  /\ ~Has(rem, "language") => story.v["language"] = JStr(<<"English">>)
        /\ story.k = "FFNStory"
           => /\ \A key \in {"favorites", "follows", "reviews"} :
                    ~Has(rem, key) => story.v["stats"].v[key] = JInt(0)
              /\ ~Has(rem, "genres") => story.v["genres"] = JStr(<<>>)
              /\ ~Has(rem, "crossover") => story.v["is_crossover"] = JBool(FALSE)
        /\ story.k = "AO3Story"
           => /\ \A key \in AO3OptionalStats :
                    ~Has(rem["stats"].v, key) => story.v["stats"].v[key] = JInt(0)
              /\ \A key \in {"category", "freeform", "relationship", "warning"} :
                    ~Has(rem, key) => story.v["tags"].v[key] = Tuple(<<>>)

\* C10: an FFN or AO3 payload that omits any subset of its optional
\* extended-metadata keys parses, each omitted key giving its default.
C10_OptionalKeysDefault ==
    \A t \in Tasks :
        (Answered(t, "meta") /\ body[t] \in OmissionPayloads)
        => (result[t].kind = "return" /\ OmissionDefaults(body[t], result[t].val))

\* raw_fandom split at every " + ", the last of several parts without its
\* trailing " Crossover".
AllFandoms(raw) ==
    LET parts == SplitAll(raw, {" + "})
    IN  [i \in 1..Len(parts) |->
            JStr(IF Len(parts) > 1 /\ i = Len(parts)
                 THEN RemoveSuffix(parts[i], " Crossover") ELSE parts[i])]

FFNReturned(t) ==
    /\ Answered(t, "meta") /\ result[t].kind = "return" /\ result[t].val.k = "FFNStory"
    /\ body[t].v["rawExtendedMeta"].k = "dict"
    /\ Has(body[t].v["rawExtendedMeta"].v, "raw_fandom")

\* C11: the fandoms of an FFN story are all the parts of raw_fandom split at
\* every " + ", with " Crossover" removed from the last of several parts: N
\* fandoms joined by " + " give N entries.
C11_FandomsSplitEverywhere ==
    \A t \in Tasks :
        FFNReturned(t)
        => result[t].val.v["fandoms"]
             = Tuple(AllFandoms(body[t].v["rawExtendedMeta"].v["raw_fandom"].v))

StoryReturned(t, variant) ==
    Answered(t, "meta") /\ result[t].kind = "return" /\ result[t].val.k = variant

\* C12: a successfully parsed AO3 or FFN story with more than one fandom has
\* is_crossover true, and an AO3 story with at most one fandom has
\* is_crossover false.
C12_CrossoverFromFandoms ==
    \A t \in Tasks :
        /\ (StoryReturned(t, "AO3Story") \/ StoryReturned(t, "FFNStory"))
           => (Len(result[t].val.v["fandoms"].v) > 1
               => result[t].val.v["is_crossover"] = JBool(TRUE))
        /\ StoryReturned(t, "AO3Story")
           => (Len(result[t].val.v["fandoms"].v) <= 1
               => result[t].val.v["is_crossover"] = JBool(FALSE))

\* C12, amended: the is_crossover of an AO3 story parsed from extended
\* metadata is "more than one fandom"; the is_crossover of an FFN story so
\* parsed is the `crossover` flag of its extended metadata, whatever the
\* number of fandoms raw_fandom names.
C12_CrossoverPerSite ==
    \A t \in Tasks :
        /\ (StoryReturned(t, "AO3Story") /\ Truthy(body[t].v["rawExtendedMeta"]))
           => result[t].val.v["is_crossover"] = JBool(Len(result[t].val.v["fandoms"].v) > 1)
        /\ (StoryReturned(t, "FFNStory") /\ Truthy(body[t].v["rawExtendedMeta"]))
           => /\ Has(body[t].v["rawExtendedMeta"].v, "crossover")
              /\ result[t].val.v["is_crossover"] = body[t].v["rawExtendedMeta"].v["crossover"]

C12_Witness ==
    \E t \in Tasks :
        /\ StoryReturned(t, "FFNStory")
        /\ Len(result[t].val.v["fandoms"].v) = 2
        /\ body[t].v["rawExtendedMeta"].v["crossover"] = JBool(FALSE)
        /\ result[t].val.v["is_crossover"] = JBool(FALSE)

\* urljoin("https://fichub.net/", link) on the tokens of an upstream link.
OnFicHub(link) ==
    IF link # <<>> /\ Head(link) \in Schemes THEN link
    ELSE <<"https://", "fichub.net">> \o link

\* C13: each of the four links get_story_downloads returns is the upstream
\* value resolved against https://fichub.net/: a relative path comes back
\* absolute, an absolute value comes back unchanged.
C13_LinksResolved ==
    \A t \in Tasks :
        (Answered(t, "epub") /\ result[t].kind = "return")
        => \A key \in LinkKeys :
              result[t].val.v["urls"].v[key] = JStr(OnFicHub(body[t].v["urls"].v[key].v))

\* C14: shape_data leaves its input as it was: after the call the decoded
\* payload and its rawExtendedMeta hold the keys and values they held
\* before, and reshaping the same object again gives the same result.
C14_InputUntouched ==
    \A t \in Tasks :
        (Answered(t, "meta") /\ body[t].k = "dict")
        => /\ decoded[t] = body[t]
           /\ shape_data(decoded[t]) = shape_data(body[t])

RECURSIVE Hashable(_)
\* hash(x) is defined: x is a str, int, bool, None or datetime, a tuple of
\* hashable values, or an instance of a frozen Struct with hashable fields.
Hashable(x) ==
    CASE x.k \in {"str", "int", "bool", "null", "datetime"} -> TRUE
      [] x.k = "tuple" -> \A i \in 1..Len(x.v) : Hashable(x.v[i])
      [] x.k \in {"list", "dict"} -> FALSE
      [] OTHER -> x.k \in FrozenTypes /\ \A n \in DOMAIN x.v : Hashable(x.v[n])

SameResponse(t, u) ==
    /\ pc[t] = "done" /\ pc[u] = "done" /\ call[t] = call[u]
    /\ body[t].k # "absent" /\ body[t] = body[u]

C16_AtMostOneRequest ==
    \A t \in Tasks :
        /\ Len(issued[t]) <= 1
        /\ pc[t] \in {"idle", "waiting", "admitted"} => issued[t] = <<>>
        /\ pc[t] = "inflight" => Len(issued[t]) = 1

C16_Witness ==
    \E t, u \in Tasks :
        /\ pc[t] = "done" /\ body[t].k = "absent"
        /\ result[t] = Raise("FicHubException") /\ Len(issued[t]) = 1
        /\ pc[u] = "done" /\ body[u].k # "absent"
        /\ result[u] = Raise("FicHubException") /\ Len(issued[u]) = 1

\* The tasks holding a permit of the i-th semaphore.
Holders(i) == {t \in Tasks : held[t] = i /\ pc[t] \in {"admitted", "inflight"}}

\* C17: every permit taken is given back exactly once, to the semaphore it
\* was taken from, on every way out of _get: the counter of each semaphore
\* plus its holders is its capacity, a finished call holds nothing, and with
\* no request in flight the current semaphore has all its permits.
C17_PermitsConserved ==
    /\ \A i \in 1..Len(sems) : sems[i].value + Cardinality(Holders(i)) = sems[i].cap
    /\ \A t \in Tasks : pc[t] = "done" => held[t] = 0
    /\ InFlight = {} => sems[semaphore].value = sems[semaphore].cap

C17_Witness ==
    \E t, u \in Tasks :
        /\ result[t] = Raise("CancelledError") /\ Len(issued[t]) = 1
        /\ result[u] = Raise("ClientConnectionError")
        /\ InFlight = {} /\ semaphore = 1
        /\ sems[semaphore].value = sems[semaphore].cap

\* C18: whenever _get calls self.session.get, the session exists and is
\* open, also when close() ran while the call waited for admission.
C18_SessionOpenAtRequest ==
    \A t \in Tasks : \A i \in 1..Len(issued[t]) : issued[t][i] = "open"

====
